---------------------------- MODULE Spec2Model ----------------------------
(***************************************************************************)
(* Model of the academic stress early-warning backend:                     *)
(*   src/app/risk_engine.py        behavioural rule engine and what-if     *)
(*   src/app/analytics_engine.py   psychometric rule engine                *)
(*   src/app/data_store.py         in-memory store and ingestion           *)
(*   src/app/main.py               HTTP handlers                           *)
(*   src/admin-dashboard/risk_engine.py   dashboard variant                *)
(*                                                                         *)
(* Numbers.  Attendance percentages are Python floats; the model draws     *)
(* them from whole percentages, on which the float comparisons and the     *)
(* float subtraction of the code are exact.  The workload percentage       *)
(* ((w - p) / p) * 100 > 40 is compared as (w - p) * 100 > 40 * p, which   *)
(* is what the float expression yields for every p in 1..59, w in 1..119.  *)
(* Texts.  An f-string explanation is modelled as the record of the rule   *)
(* that produced it and the value it shows, so two texts are equal exactly *)
(* when the Python strings are equal.                                      *)
(***************************************************************************)
EXTENDS Integers, Sequences, FiniteSets, TLC

VARIABLES
    score,          \* SpecLevel: the score handed to the level mappings
    levels,         \* SpecLevel: the levels returned, per variant
    student,        \* SpecRisk, SpecWhatIf: the Student snapshot handed to the engine
    risk,           \* SpecRisk: the value returned by compute_risk(student)
    row,            \* SpecRuleRisk: the psychometric feature row
    rule_risk,      \* SpecRuleRisk: the value returned by compute_rule_risk(row)
    params,         \* SpecWhatIf: the intervention parameters of the what-if calls
    result,         \* SpecWhatIf: what the first what_if_simulation call returned
    result2,        \* SpecWhatIf: what the second call, same arguments, returned
    restarted,      \* SpecWhatIf: the interpreter was restarted between the calls
    students,       \* Spec: DataStore._students
    risk_cache,     \* Spec: DataStore._risk_cache
    ingestion_log,  \* Spec: DataStore._ingestion_log
    response,       \* Spec: what the last request returned
    ml_prediction,  \* SpecFusion: the label the classifier predicted for the row
    analytics,      \* SpecFusion: the fused score and level of the row
    trend,          \* SpecTrend: the trajectory a trend generator returned
    collapse,       \* SpecCollapse: what compute_silent_collapse_risk returned
    periods,        \* SpecPersistence: the trend handed to compute_persistence_score
    persistence_score  \* SpecPersistence: what compute_persistence_score returned

vars == <<score, levels, student, risk, row, rule_risk, params, result, result2,
          restarted, students, risk_cache, ingestion_log, response,
          ml_prediction, analytics, trend, collapse, periods, persistence_score>>

\* Python's None, and a value that is present.
None == <<>>
Some(v) == <<v>>
Val(o) == o[1]

Min(a, b) == IF a <= b THEN a ELSE b
Max(a, b) == IF a >= b THEN a ELSE b

\* round-half-to-even of n / d for n >= 0, d > 0 (Python's ":.0f" and round()).
RoundHalfEven(n, d) ==
    LET q == n \div d
        r == n % d
    IN  IF 2 * r < d THEN q
        ELSE IF 2 * r > d THEN q + 1
        ELSE IF q % 2 = 0 THEN q ELSE q + 1

\* round() of a possibly negative quotient; Python rounds symmetrically.
Round(n, d) == IF n >= 0 THEN RoundHalfEven(n, d) ELSE 0 - RoundHalfEven(0 - n, d)

-----------------------------------------------------------------------------
(* Level mappings *)

\* risk_engine.get_risk_level with the comparison bug "< 30".
get_risk_level_strict(s) ==
    IF s < 30 THEN "Low" ELSE IF s <= 60 THEN "Moderate" ELSE "High"

\* src/app/risk_engine.py get_risk_level
get_risk_level(s) ==
    IF s <= 30 THEN "Low" ELSE IF s <= 60 THEN "Moderate" ELSE "High"

\* analytics get_risk_level with the thresholds shifted by one (> instead of >=).
analytics_get_risk_level_shifted(s) ==
    IF s > 61 THEN "High" ELSE IF s > 31 THEN "Moderate" ELSE "Low"

\* src/app/analytics_engine.py get_risk_level
analytics_get_risk_level(s) ==
    IF s >= 61 THEN "High" ELSE IF s >= 31 THEN "Moderate" ELSE "Low"

\* src/admin-dashboard/risk_engine.py compute_risk, the level expression
dashboard_risk_level(s) ==
    IF s <= 30 THEN "Low" ELSE IF s <= 60 THEN "Moderate" ELSE "High"


-----------------------------------------------------------------------------
(* Values of the variables a specification does not use *)

LevelIdle == score = 0 /\ levels = None
RiskIdle == risk = None
RuleRiskIdle == row = None /\ rule_risk = None
WhatIfIdle == params = None /\ result = None /\ result2 = None /\ restarted = FALSE
StoreIdle ==
    students = None /\ risk_cache = None /\ ingestion_log = <<>> /\ response = None

PersistenceIdle == periods = None /\ persistence_score = None

AnalyticsIdle ==
    /\ ml_prediction = None /\ analytics = None /\ trend = None /\ collapse = None
    /\ PersistenceIdle

levelVars == <<score, levels>>
riskVars == <<student, risk>>
ruleRiskVars == <<row, rule_risk>>
whatIfVars == <<params, result, result2, restarted>>
storeVars == <<students, risk_cache, ingestion_log, response>>
persistenceVars == <<periods, persistence_score>>
analyticsVars == <<ml_prediction, analytics, trend, collapse, persistenceVars>>

-----------------------------------------------------------------------------
(* SpecLevel: the three level mappings applied to every score 0..MaxScore *)

\* Scores are capped at 100 by min(100, score).
MaxScore == 100

Variants == {"behavioural", "psychometric", "dashboard"}

LevelOf(variant, s) ==
    CASE variant = "behavioural" -> get_risk_level(s)
      [] variant = "psychometric" -> analytics_get_risk_level(s)
      [] variant = "dashboard" -> dashboard_risk_level(s)

InitLevel ==
    /\ score \in 0..MaxScore
    /\ levels = [v \in Variants |-> None]
    /\ student = None /\ RiskIdle /\ RuleRiskIdle /\ WhatIfIdle /\ StoreIdle
    /\ AnalyticsIdle

\* One call of a level mapping on the score.
Classify(variant) ==
    /\ levels[variant] = None
    /\ levels' = [levels EXCEPT ![variant] = Some(LevelOf(variant, score))]
    /\ UNCHANGED <<analyticsVars, score, riskVars, ruleRiskVars, whatIfVars, storeVars>>

NextLevel == \E variant \in Variants : Classify(variant)

SpecLevel == InitLevel /\ [][NextLevel]_vars

Classified(variant) == levels /= None /\ levels[variant] /= None

\* C3: the behavioural mappings (app and dashboard) return Low up to 30,
\* Moderate from 31 to 60 and High from 61 on; the psychometric mapping returns
\* Low below 31, Moderate below 61 and High otherwise; so 30 is Low and 31 is
\* Moderate in every variant, 60 is Moderate and 61 is High in the behavioural one.
C3_LevelBoundaries ==
    /\ \A v \in {"behavioural", "dashboard"} :
          Classified(v) =>
             /\ (score <= 30 => Val(levels[v]) = "Low")
             /\ (score > 30 /\ score <= 60 => Val(levels[v]) = "Moderate")
             /\ (score > 60 => Val(levels[v]) = "High")
             /\ (score = 30 => Val(levels[v]) = "Low")
             /\ (score = 31 => Val(levels[v]) = "Moderate")
             /\ (score = 60 => Val(levels[v]) = "Moderate")
             /\ (score = 61 => Val(levels[v]) = "High")
    /\ Classified("psychometric") =>
          /\ (score < 31 => Val(levels["psychometric"]) = "Low")
          /\ (score >= 31 /\ score < 61 => Val(levels["psychometric"]) = "Moderate")
          /\ (score >= 61 => Val(levels["psychometric"]) = "High")
          /\ (score = 30 => Val(levels["psychometric"]) = "Low")
          /\ (score = 31 => Val(levels["psychometric"]) = "Moderate")

C3_Witness ==
    /\ score = 30
    /\ Classified("behavioural") /\ Classified("psychometric") /\ Classified("dashboard")
    /\ Val(levels["behavioural"]) = "Low"

\* C4 as claimed: at the scores 30 and 60 the behavioural and the psychometric
\* mapping return different levels.
C4_BoundariesDiffer ==
    (Classified("behavioural") /\ Classified("psychometric") /\ score \in {30, 60})
        => Val(levels["behavioural"]) /= Val(levels["psychometric"])

\* C4 as amended: the behavioural and the psychometric mapping return the same
\* level for every integer score 0..100; 30 is Low and 60 is Moderate under both.
C4_MappingsAgree ==
    (Classified("behavioural") /\ Classified("psychometric")) =>
        /\ Val(levels["behavioural"]) = Val(levels["psychometric"])
        /\ (score = 30 => Val(levels["psychometric"]) = "Low")
        /\ (score = 60 => Val(levels["psychometric"]) = "Moderate")

C4_Witness ==
    /\ score = 60
    /\ Classified("behavioural") /\ Classified("psychometric")
    /\ Val(levels["behavioural"]) = "Moderate"
    /\ Val(levels["psychometric"]) = "Moderate"

-----------------------------------------------------------------------------
(* The behavioural rule engine, src/app/risk_engine.py *)

\* The dataclass Student.  name, email, department and year are carried by
\* student_id: the code only ever copies them together with it.
Student(id, att, late, missed, workload, prev_att, prev_workload) ==
    [student_id |-> id,
     attendance_rate |-> att,
     late_submissions |-> late,
     missed_submissions |-> missed,
     workload_tasks |-> workload,
     previous_attendance |-> prev_att,
     previous_workload |-> prev_workload]

\* The text of a triggered rule: which rule wrote it and the value it shows.
Reason(rule, shown) == [rule |-> rule, shown |-> shown]

\* One "if <cond>: score += weight; reasons.append(text)" step of a rule engine.
Apply(acc, cond, weight, text) ==
    IF cond
    THEN [score |-> acc.score + weight, reasons |-> Append(acc.reasons, text)]
    ELSE acc

\* Rule 3 with ">= 40".
workload_spike_inclusive(s) ==
    /\ s.previous_workload > 0
    /\ (s.workload_tasks - s.previous_workload) * 100 >= 40 * s.previous_workload

\* Rule 3: if previous_workload > 0, workload_increase =
\* ((workload_tasks - previous_workload) / previous_workload) * 100 > 40.
workload_spike(s) ==
    /\ s.previous_workload > 0
    /\ (s.workload_tasks - s.previous_workload) * 100 > 40 * s.previous_workload

\* f"{workload_increase:.0f}"
workload_increase_shown(s) ==
    RoundHalfEven((s.workload_tasks - s.previous_workload) * 100, s.previous_workload)

\* Rule 5 with ">= 20".
attendance_dropped_inclusive(s) == s.previous_attendance - s.attendance_rate >= 20

\* Rule 5: attendance_drop = previous_attendance - attendance_rate > 20.
attendance_dropped(s) == s.previous_attendance - s.attendance_rate > 20

\* compute_risk: the five rules in order, then min(100, score).
compute_risk(s) ==
    LET a0 == [score |-> 0, reasons |-> <<>>]
        a1 == Apply(a0, s.attendance_rate < 75, 20, Reason(1, s.attendance_rate))
        a2 == Apply(a1, s.late_submissions >= 2, 25, Reason(2, s.late_submissions))
        a3 == IF workload_spike(s)
              THEN Apply(a2, TRUE, 15, Reason(3, workload_increase_shown(s)))
              ELSE a2
        a4 == Apply(a3, s.missed_submissions > 0, 25, Reason(4, s.missed_submissions))
        a5 == Apply(a4, attendance_dropped(s), 15,
                    Reason(5, s.previous_attendance - s.attendance_rate))
    IN  [score |-> Min(100, a5.score), reasons |-> a5.reasons]

\* The rules among the reasons, in the order of the list.
RulesOf(reasons) == [i \in 1..Len(reasons) |-> reasons[i].rule]

-----------------------------------------------------------------------------
(* SpecRisk: compute_risk applied to every snapshot of RiskSnapshots *)

\* Largest late and missed counts, workload and previous workload drawn.
MaxLate == 3
MaxMissed == 2
MaxWorkload == 15
MaxPrevWorkload == 10

\* Whole attendance percentages around the thresholds 75 and 20.
AttendanceValues == {0, 54, 55, 74, 75, 100}
PrevAttendanceValues == {0, 75, 95, 100}

StudentId == 1000

RiskSnapshots ==
    { Student(StudentId, att, late, missed, w, pa, pw) :
        att \in AttendanceValues, late \in 0..MaxLate, missed \in 0..MaxMissed,
        w \in 0..MaxWorkload, pa \in PrevAttendanceValues, pw \in 0..MaxPrevWorkload }

InitRisk ==
    /\ student \in RiskSnapshots
    /\ risk = None
    /\ LevelIdle /\ RuleRiskIdle /\ WhatIfIdle /\ StoreIdle
    /\ AnalyticsIdle

\* risk = compute_risk(student)
ComputeRisk ==
    /\ risk = None
    /\ risk' = Some(compute_risk(student))
    /\ UNCHANGED <<analyticsVars, student, levelVars, ruleRiskVars, whatIfVars, storeVars>>

NextRisk == ComputeRisk

SpecRisk == InitRisk /\ [][NextRisk]_vars

\* The behavioural table: predicate and weight of each rule.
BehaviouralHolds(rule, s) ==
    CASE rule = 1 -> s.attendance_rate < 75
      [] rule = 2 -> s.late_submissions >= 2
      [] rule = 3 -> /\ s.previous_workload /= 0
                     /\ (s.workload_tasks - s.previous_workload) * 100
                            > 40 * s.previous_workload
      [] rule = 4 -> s.missed_submissions > 0
      [] rule = 5 -> s.previous_attendance - s.attendance_rate > 20

BehaviouralWeight(rule) ==
    CASE rule = 1 -> 20 [] rule = 2 -> 25 [] rule = 3 -> 15 [] rule = 4 -> 25
      [] rule = 5 -> 15

RECURSIVE WeightSum(_, _)
WeightSum(W(_), rules) ==
    IF rules = {} THEN 0
    ELSE LET r == CHOOSE x \in rules : TRUE
         IN  W(r) + WeightSum(W, rules \ {r})

IsIncreasing(seq) == \A i, j \in 1..Len(seq) : i < j => seq[i] < seq[j]

Range(seq) == { seq[i] : i \in 1..Len(seq) }

\* C1: compute_risk returns min(100, sum of the weights of the rules of the
\* table that hold) and one explanation per such rule, in rule order 1..5; with
\* previous_workload = 0 the workload rule adds nothing and the other four
\* rules are evaluated as usual.
C1_ComputeRiskTable ==
    risk /= None =>
        LET held == { r \in 1..5 : BehaviouralHolds(r, student) }
            got == Val(risk)
        IN  /\ got.score = Min(100, WeightSum(BehaviouralWeight, held))
            /\ Range(RulesOf(got.reasons)) = held
            /\ IsIncreasing(RulesOf(got.reasons))
            /\ (student.previous_workload = 0 =>
                   /\ 3 \notin Range(RulesOf(got.reasons))
                   /\ got.score =
                        Min(100, WeightSum(BehaviouralWeight, held \ {3})))

\* compute_risk ran on a snapshot with previous_workload = 0 whose other four
\* rules all hold.
C1_Witness ==
    /\ risk /= None
    /\ student.previous_workload = 0 /\ student.workload_tasks > 0
    /\ RulesOf(Val(risk).reasons) = <<1, 2, 4, 5>>
    /\ Val(risk).score = 85

-----------------------------------------------------------------------------
(* The psychometric rule engine, src/app/analytics_engine.py *)

\* The nine "if" statements of compute_rule_risk, in order.  The text of rule 9
\* shows no value; the model records the 1 the rule matched.
rule_risk_sum(r) ==
    LET a0 == [score |-> 0, reasons |-> <<>>]
        a1 == Apply(a0, r.anxiety_level > 15, 20, Reason(1, r.anxiety_level))
        a2 == Apply(a1, r.depression > 18, 20, Reason(2, r.depression))
        a3 == Apply(a2, r.sleep_quality < 2, 15, Reason(3, r.sleep_quality))
        a4 == Apply(a3, r.social_support < 2, 15, Reason(4, r.social_support))
        a5 == Apply(a4, r.peer_pressure > 3, 10, Reason(5, r.peer_pressure))
        a6 == Apply(a5, r.academic_performance < 2, 15,
                    Reason(6, r.academic_performance))
        a7 == Apply(a6, r.bullying > 3, 20, Reason(7, r.bullying))
        a8 == Apply(a7, r.study_load > 4, 10, Reason(8, r.study_load))
        a9 == Apply(a8, r.mental_health_history = 1, 15,
                    Reason(9, r.mental_health_history))
    IN  a9

\* compute_rule_risk without "score = min(100, score)".
compute_rule_risk_uncapped(r) ==
    [score |-> rule_risk_sum(r).score, triggers |-> rule_risk_sum(r).reasons]

\* compute_rule_risk: the nine rules, then score = min(100, score).
compute_rule_risk(r) ==
    [score |-> Min(100, rule_risk_sum(r).score), triggers |-> rule_risk_sum(r).reasons]

-----------------------------------------------------------------------------
(* SpecRuleRisk: compute_rule_risk applied to every row of Rows *)

\* Survey values on both sides of each rule's threshold.
Rows ==
    [anxiety_level : {15, 16}, depression : {18, 19}, sleep_quality : {1, 2},
     social_support : {1, 2}, peer_pressure : {3, 4}, academic_performance : {1, 2},
     bullying : {3, 4}, study_load : {4, 5}, mental_health_history : {0, 1}]

InitRuleRisk ==
    /\ row \in Rows
    /\ rule_risk = None
    /\ student = None /\ LevelIdle /\ RiskIdle /\ WhatIfIdle /\ StoreIdle
    /\ AnalyticsIdle

\* rule_risk = compute_rule_risk(row)
ComputeRuleRisk ==
    /\ rule_risk = None
    /\ rule_risk' = Some(compute_rule_risk(row))
    /\ UNCHANGED <<analyticsVars, row, levelVars, riskVars, whatIfVars, storeVars>>

NextRuleRisk == ComputeRuleRisk

SpecRuleRisk == InitRuleRisk /\ [][NextRuleRisk]_vars

\* The psychometric table: predicate and weight of each rule.
PsychometricHolds(rule, r) ==
    CASE rule = 1 -> r.anxiety_level > 15
      [] rule = 2 -> r.depression > 18
      [] rule = 3 -> r.sleep_quality < 2
      [] rule = 4 -> r.social_support < 2
      [] rule = 5 -> r.peer_pressure > 3
      [] rule = 6 -> r.academic_performance < 2
      [] rule = 7 -> r.bullying > 3
      [] rule = 8 -> r.study_load > 4
      [] rule = 9 -> r.mental_health_history = 1

PsychometricWeight(rule) ==
    CASE rule = 1 -> 20 [] rule = 2 -> 20 [] rule = 3 -> 15 [] rule = 4 -> 15
      [] rule = 5 -> 10 [] rule = 6 -> 15 [] rule = 7 -> 20 [] rule = 8 -> 10
      [] rule = 9 -> 15

\* C2: compute_rule_risk returns min(100, sum of the weights of the triggered
\* rules of the nine-rule table) with one trigger text per fired rule in rule
\* order; the score is in 0..100 for every combination, and 100 when all nine
\* rules fire (raw sum 140).
C2_RuleRiskTable ==
    rule_risk /= None =>
        LET held == { r \in 1..9 : PsychometricHolds(r, row) }
            got == Val(rule_risk)
        IN  /\ got.score = Min(100, WeightSum(PsychometricWeight, held))
            /\ Range(RulesOf(got.triggers)) = held
            /\ IsIncreasing(RulesOf(got.triggers))
            /\ got.score \in 0..100
            /\ (held = 1..9 => got.score = 100)

\* compute_rule_risk ran on a row that triggers all nine rules.
C2_Witness ==
    /\ rule_risk /= None
    /\ RulesOf(Val(rule_risk).triggers) = <<1, 2, 3, 4, 5, 6, 7, 8, 9>>
    /\ WeightSum(PsychometricWeight, 1..9) = 140
    /\ Val(rule_risk).score = 100

-----------------------------------------------------------------------------
(* The what-if simulator, src/app/risk_engine.py what_if_simulation *)

\* The keyword arguments of what_if_simulation.
Params(fa, fw, at, wt, lt, mt) ==
    [fix_attendance |-> fa, fix_workload |-> fw, attendance_target |-> at,
     workload_target |-> wt, late_subs_target |-> lt, missed_subs_target |-> mt]

\* hypo_attendance with the fix flag taking precedence over the target.
hypo_attendance_flag_first(s, P) ==
    IF P.fix_attendance THEN 90
    ELSE IF P.attendance_target /= None THEN Val(P.attendance_target)
    ELSE s.attendance_rate

\* hypo_attendance = attendance_target if attendance_target is not None
\*                   else (90.0 if fix_attendance else student.attendance_rate)
hypo_attendance(s, P) ==
    IF P.attendance_target /= None THEN Val(P.attendance_target)
    ELSE IF P.fix_attendance THEN 90 ELSE s.attendance_rate

\* hypo_workload = workload_target if workload_target is not None
\*                 else (10 if fix_workload else student.workload_tasks)
hypo_workload(s, P) ==
    IF P.workload_target /= None THEN Val(P.workload_target)
    ELSE IF P.fix_workload THEN 10 ELSE s.workload_tasks

\* hypo_late = late_subs_target if late_subs_target is not None
\*             else student.late_submissions
hypo_late(s, P) ==
    IF P.late_subs_target /= None THEN Val(P.late_subs_target) ELSE s.late_submissions

\* hypo_missed = missed_subs_target if missed_subs_target is not None
\*               else student.missed_submissions
hypo_missed(s, P) ==
    IF P.missed_subs_target /= None THEN Val(P.missed_subs_target)
    ELSE s.missed_submissions

\* hypo_prev_attendance that always carries the stored previous attendance over.
hypo_prev_attendance_stale(s, P) == s.previous_attendance

\* hypo_prev_attendance = hypo_attendance
\*     if (attendance_target is not None or fix_attendance)
\*     else student.previous_attendance
hypo_prev_attendance(s, P) ==
    IF P.attendance_target /= None \/ P.fix_attendance
    THEN hypo_attendance(s, P) ELSE s.previous_attendance

\* modified_student = Student(...): a new object built from the hypothetical values.
modified_student(s, P) ==
    Student(s.student_id, hypo_attendance(s, P), hypo_late(s, P), hypo_missed(s, P),
            hypo_workload(s, P), hypo_prev_attendance(s, P), s.previous_workload)

\* A what_if_simulation that writes the hypothetical values into its argument.
student_after_what_if_in_place(s, P) == modified_student(s, P)

\* The object passed as `student` once what_if_simulation has returned: the
\* function reads its attributes and assigns none of them.
student_after_what_if(s, P) == s

\* removed_rules = set(original_reasons) - set(new_reasons), and
\* added_rules = set(new_reasons) - set(original_reasons): sets of texts.
removed_rules(s, P) ==
    Range(compute_risk(s).reasons) \ Range(compute_risk(modified_student(s, P)).reasons)

added_rules(s, P) ==
    Range(compute_risk(modified_student(s, P)).reasons) \ Range(compute_risk(s).reasons)

\* The orders in which "for rule in <set>" may visit a set of str: the order
\* follows the strings' hashes, which CPython salts per interpreter start.
RECURSIVE IterationOrders(_)
IterationOrders(S) ==
    IF S = {} THEN {<<>>}
    ELSE UNION { { <<x>> \o rest : rest \in IterationOrders(S \ {x}) } : x \in S }

Entry(kind, text) == [kind |-> kind, text |-> text]

\* The two fallback messages; a message without a rule shows rule 0.
StableMessage == Entry("Stable", Reason(0, 0))
NoChangesMessage == Entry("NoChanges", Reason(0, 0))

\* explanations: the "Removed" entries, then the "Triggered" entries, then the
\* fallback when there are none.
explanations(s, P, removed_order, added_order) ==
    LET diff == [i \in 1..Len(removed_order) |-> Entry("Removed", removed_order[i])]
                \o [i \in 1..Len(added_order) |-> Entry("Triggered", added_order[i])]
    IN  IF diff /= <<>> THEN diff
        ELSE IF \/ hypo_attendance(s, P) /= s.attendance_rate
                \/ hypo_workload(s, P) /= s.workload_tasks
             THEN <<StableMessage>>
             ELSE <<NoChangesMessage>>

\* reductionPercent cut off after the first decimal instead of rounded.
reduction_percent_truncated(reduction, original_score) ==
    IF original_score > 0 THEN (reduction * 1000) \div original_score ELSE 0

\* round((reduction / original_score * 100) if original_score > 0 else 0, 1),
\* in tenths of a percent.
reduction_percent(reduction, original_score) ==
    IF original_score > 0 THEN Round(reduction * 1000, original_score) ELSE 0

\* The summary message: which of the three texts, and the points it shows.
summary(reduction) ==
    IF reduction > 0 THEN [kind |-> "reduces", points |-> reduction]
    ELSE IF reduction < 0 THEN [kind |-> "increased", points |-> 0 - reduction]
    ELSE [kind |-> "none", points |-> 0]

\* what_if_simulation(student, **P), the sets iterated in the given orders.
what_if_simulation(s, P, removed_order, added_order) ==
    LET original == compute_risk(s)
        new == compute_risk(modified_student(s, P))
        reduction == original.score - new.score
    IN  [originalRisk |-> original.score,
         originalLevel |-> get_risk_level(original.score),
         newRisk |-> new.score,
         newLevel |-> get_risk_level(new.score),
         riskReduction |-> reduction,
         reductionPercent |-> reduction_percent(reduction, original.score),
         explanation |-> explanations(s, P, removed_order, added_order),
         summary |-> summary(reduction),
         interventions |->
            [attendance |-> hypo_attendance(s, P),
             workload |-> hypo_workload(s, P),
             lateSubmissions |-> hypo_late(s, P),
             missedSubmissions |-> hypo_missed(s, P)]]

\* One call: what it returned, and the locals the properties speak about.
Call(s, P, removed_order, added_order) ==
    [returned |-> what_if_simulation(s, P, removed_order, added_order),
     modified_student |-> modified_student(s, P),
     original_reasons |-> compute_risk(s).reasons,
     new_reasons |-> compute_risk(modified_student(s, P)).reasons]

-----------------------------------------------------------------------------
(* The risk cache of the store, src/app/data_store.py *)

\* The dict _refresh_risk_cache stores for a student.  anomalyScore,
\* recommendations and stressTrend are left out: nothing below reads them.
CacheEntry(s) ==
    [studentId |-> s.student_id,
     attendance |-> s.attendance_rate,
     lateSubmissions |-> s.late_submissions,
     missedSubmissions |-> s.missed_submissions,
     workloadTasks |-> s.workload_tasks,
     riskScore |-> compute_risk(s).score,
     riskLevel |-> get_risk_level(compute_risk(s).score),
     triggeredRules |-> compute_risk(s).reasons]

\* A refresh that leaves an entry alone once it exists.
refresh_risk_cache_once(cache, st, id) ==
    IF id \notin DOMAIN st \/ id \in DOMAIN cache THEN cache
    ELSE [i \in DOMAIN cache \cup {id} |-> IF i = id THEN CacheEntry(st[id]) ELSE cache[i]]

\* _refresh_risk_cache(student_id): nothing for an unknown id.
refresh_risk_cache(cache, st, id) ==
    IF id \notin DOMAIN st THEN cache
    ELSE [i \in DOMAIN cache \cup {id} |-> IF i = id THEN CacheEntry(st[id]) ELSE cache[i]]

-----------------------------------------------------------------------------
(* SpecWhatIf: a store holding one snapshot and a what_if_simulation call on it.
   SpecTwoRuns: two calls with the same arguments, the interpreter possibly
   restarted between them. *)

WhatIfAttendance == {60, 75, 90}
WhatIfPrevAttendance == {80, 95}
WhatIfWorkload == {5, 14, 15, 20}
WhatIfPrevWorkload == {0, 5, 10}

WhatIfSnapshots ==
    { Student(StudentId, att, late, missed, w, pa, pw) :
        att \in WhatIfAttendance, late \in 0..MaxLate, missed \in 0..MaxMissed,
        w \in WhatIfWorkload, pa \in WhatIfPrevAttendance, pw \in WhatIfPrevWorkload }

WhatIfParams ==
    { Params(fa, fw, at, wt, lt, mt) :
        fa \in BOOLEAN, fw \in BOOLEAN,
        at \in {None, Some(70)}, wt \in {None, Some(25)},
        lt \in {None, Some(1)}, mt \in {None, Some(0)} }

InitWhatIf ==
    /\ student \in WhatIfSnapshots
    /\ students = [i \in {StudentId} |-> student]
    /\ risk_cache = refresh_risk_cache(<<>>, students, StudentId)
    /\ ingestion_log = <<>>
    /\ response = None
    /\ params = None /\ result = None /\ result2 = None /\ restarted = FALSE
    /\ LevelIdle /\ RiskIdle /\ RuleRiskIdle
    /\ AnalyticsIdle

\* The first call: student = data_store.get_student(id), what_if_simulation(student, P).
WhatIf(P) ==
    /\ result = None
    /\ \E ro \in IterationOrders(removed_rules(student, P)),
          ao \in IterationOrders(added_rules(student, P)) :
          result' = Some(Call(student, P, ro, ao) @@ [removed_order |-> ro, added_order |-> ao])
    /\ params' = Some(P)
    /\ student' = student_after_what_if(student, P)
    /\ students' = [students EXCEPT ![StudentId] = student']
    /\ UNCHANGED <<analyticsVars, result2, restarted, risk_cache, ingestion_log, response,
                   levelVars, risk, ruleRiskVars>>

\* The interpreter is started anew: string hashes are salted afresh.  The same
\* snapshot is handed to the second call.
Restart ==
    /\ result /= None /\ result2 = None /\ ~restarted
    /\ restarted' = TRUE
    /\ UNCHANGED <<analyticsVars, student, params, result, result2, storeVars,
                   levelVars, risk, ruleRiskVars>>

\* The second call, with the arguments of the first.  In the same interpreter
\* equal sets of equal strings are visited in the same order.
WhatIfAgain ==
    /\ result /= None /\ result2 = None
    /\ \E ro \in IterationOrders(removed_rules(student, Val(params))),
          ao \in IterationOrders(added_rules(student, Val(params))) :
          /\ ~restarted =>
                ro = Val(result).removed_order /\ ao = Val(result).added_order
          /\ result2' = Some(Call(student, Val(params), ro, ao)
                             @@ [removed_order |-> ro, added_order |-> ao])
    /\ student' = student_after_what_if(student, Val(params))
    /\ students' = [students EXCEPT ![StudentId] = student']
    /\ UNCHANGED <<analyticsVars, params, result, restarted, risk_cache, ingestion_log, response,
                   levelVars, risk, ruleRiskVars>>

NextWhatIf == \E P \in WhatIfParams : WhatIf(P)

SpecWhatIf == InitWhatIf /\ [][NextWhatIf]_vars

\* SpecTwoRuns: the two calls, on the snapshots of TwoRunSnapshots.
TwoRunSnapshots ==
    { Student(StudentId, att, late, missed, 20, pa, 10) :
        att \in {60, 90}, late \in {0, MaxLate}, missed \in {0, 1}, pa \in {80, 95} }

InitTwoRuns == InitWhatIf /\ student \in TwoRunSnapshots

NextTwoRuns ==
    \/ \E P \in WhatIfParams : WhatIf(P)
    \/ Restart
    \/ WhatIfAgain

SpecTwoRuns == InitTwoRuns /\ [][NextTwoRuns]_vars


\* The rules whose text is among the entries of the given kind.
EntryRules(explanation, kind) ==
    { explanation[i].text.rule :
        i \in { j \in 1..Len(explanation) : explanation[j].kind = kind } }

\* C5: two runs of what_if_simulation on the same snapshot with the same
\* parameters return identical results in every field, the joined explanation
\* included.
C5_Deterministic ==
    (result /= None /\ result2 /= None) =>
        Val(result).returned = Val(result2).returned

\* C6: what_if_simulation never mutates: across every call, with any
\* parameters, the snapshot handed to it, the store's student records, the
\* risk cache and the ingestion log stay as they were.
C6_NonMutation ==
    [][/\ student' = student
       /\ students' = students
       /\ risk_cache' = risk_cache
       /\ ingestion_log' = ingestion_log]_vars

\* A call whose hypothetical copy differs from the snapshot has returned, and
\* the store still holds the snapshot and its cached risk.
C6_Witness ==
    /\ result /= None
    /\ Val(result).modified_student /= student
    /\ Val(result).returned.newRisk /= Val(result).returned.originalRisk
    /\ students[StudentId] = student
    /\ risk_cache[StudentId] = CacheEntry(student)
    /\ ingestion_log = <<>>

ExampleSnapshot == Student(StudentId, 60, 3, 1, 20, 80, 10)
ExampleParams == Params(TRUE, TRUE, None, None, None, None)

\* C7: on the snapshot attendance 60, late 3, missed 1, workload 20, previous
\* workload 10, previous attendance 80, with fix_attendance and fix_workload,
\* what_if_simulation returns originalRisk 85, originalLevel High, newRisk 50,
\* newLevel Moderate, riskReduction 35; the attendance-drop rule does not fire
\* on the original (the drop is exactly 20).
C7_WorkedExample ==
    (result /= None /\ student = ExampleSnapshot /\ params = Some(ExampleParams)) =>
        /\ Val(result).returned.originalRisk = 85
        /\ Val(result).returned.originalLevel = "High"
        /\ Val(result).returned.newRisk = 50
        /\ Val(result).returned.newLevel = "Moderate"
        /\ Val(result).returned.riskReduction = 35
        /\ RulesOf(Val(result).original_reasons) = <<1, 2, 3, 4>>
        /\ RulesOf(Val(result).new_reasons) = <<2, 4>>

C7_Witness ==
    /\ result /= None
    /\ student = ExampleSnapshot
    /\ params = Some(ExampleParams)
    /\ Val(result).returned.riskReduction = 35

\* C8: a supplied target is used even when the fix flag is also true; with no
\* target, fix_attendance gives 90 and fix_workload gives 10; with neither the
\* snapshot value passes through; late and missed counts take their target
\* when supplied and otherwise pass through; the returned interventions echo
\* the values the hypothetical snapshot was built from.
C8_Resolution ==
    result /= None =>
        LET P == Val(params)
            iv == Val(result).returned.interventions
            m == Val(result).modified_student
        IN  /\ P.attendance_target /= None => iv.attendance = Val(P.attendance_target)
            /\ (P.attendance_target = None /\ P.fix_attendance) => iv.attendance = 90
            /\ (P.attendance_target = None /\ ~P.fix_attendance)
                  => iv.attendance = student.attendance_rate
            /\ P.workload_target /= None => iv.workload = Val(P.workload_target)
            /\ (P.workload_target = None /\ P.fix_workload) => iv.workload = 10
            /\ (P.workload_target = None /\ ~P.fix_workload)
                  => iv.workload = student.workload_tasks
            /\ P.late_subs_target /= None => iv.lateSubmissions = Val(P.late_subs_target)
            /\ P.late_subs_target = None => iv.lateSubmissions = student.late_submissions
            /\ P.missed_subs_target /= None
                  => iv.missedSubmissions = Val(P.missed_subs_target)
            /\ P.missed_subs_target = None
                  => iv.missedSubmissions = student.missed_submissions
            /\ m.attendance_rate = iv.attendance
            /\ m.workload_tasks = iv.workload
            /\ m.late_submissions = iv.lateSubmissions
            /\ m.missed_submissions = iv.missedSubmissions

\* A call with both a target and the fix flag, for attendance and for workload.
C8_Witness ==
    /\ result /= None
    /\ Val(params).fix_attendance /\ Val(params).attendance_target = Some(70)
    /\ Val(params).fix_workload /\ Val(params).workload_target = Some(25)
    /\ Val(result).returned.interventions.attendance = 70
    /\ Val(result).returned.interventions.workload = 25

\* C9: whenever attendance_target is supplied or fix_attendance is true, the
\* hypothetical previous_attendance equals the hypothetical attendance and
\* rule 5 is not among the triggers of the hypothetical snapshot; otherwise
\* previous_attendance is carried over from the snapshot.
C9_StabilizedBaseline ==
    result /= None =>
        LET P == Val(params)
            m == Val(result).modified_student
        IN  IF P.attendance_target /= None \/ P.fix_attendance
            THEN /\ m.previous_attendance = m.attendance_rate
                 /\ 5 \notin Range(RulesOf(Val(result).new_reasons))
            ELSE m.previous_attendance = student.previous_attendance

\* Rule 5 fires on the snapshot, an attendance target below the stored
\* previous attendance by more than 20 is simulated, and rule 5 is gone.
C9_Witness ==
    /\ result /= None
    /\ Val(params).attendance_target = Some(70)
    /\ student.previous_attendance = 95
    /\ 5 \in Range(RulesOf(Val(result).original_reasons))
    /\ 5 \notin Range(RulesOf(Val(result).new_reasons))

\* C10: the explanation has a 'Removed' entry for a rule exactly when the rule
\* fired on the original snapshot and does not fire on the hypothetical one,
\* and a 'Triggered' entry exactly when it fires on the hypothetical one and
\* did not on the original; a rule firing on both contributes no entry.
C10_RuleDiff ==
    result /= None =>
        LET before == Range(RulesOf(Val(result).original_reasons))
            after == Range(RulesOf(Val(result).new_reasons))
            explanation == Val(result).returned.explanation
        IN  /\ EntryRules(explanation, "Removed") = before \ after
            /\ EntryRules(explanation, "Triggered") = after \ before

\* C11: when the rule diff is empty, the explanation is the 'stable' message
\* if any hypothetical value (attendance, workload, late submissions, missed
\* submissions) differs from the snapshot's value, and the 'No changes
\* simulated' message only if none of them changed.
C11_FallbackMessages ==
    (result /= None /\ Val(result).removed_order = <<>>
                    /\ Val(result).added_order = <<>>) =>
        LET iv == Val(result).returned.interventions
            changed == \/ iv.attendance /= student.attendance_rate
                       \/ iv.workload /= student.workload_tasks
                       \/ iv.lateSubmissions /= student.late_submissions
                       \/ iv.missedSubmissions /= student.missed_submissions
        IN  Val(result).returned.explanation =
                IF changed THEN <<StableMessage>> ELSE <<NoChangesMessage>>

\* C12: riskReduction = originalRisk - newRisk, negative when the hypothetical
\* is worse; reductionPercent = riskReduction / originalRisk * 100 rounded to
\* one decimal (held in tenths); with originalRisk 0 reductionPercent is 0
\* whatever newRisk is, and the call returns.
C12_Reduction ==
    result /= None =>
        LET r == Val(result).returned
        IN  /\ r.riskReduction = r.originalRisk - r.newRisk
            /\ r.originalRisk = compute_risk(student).score
            /\ r.newRisk = compute_risk(Val(result).modified_student).score
            /\ (r.newRisk > r.originalRisk) => r.riskReduction < 0
            /\ r.originalRisk = 0 => r.reductionPercent = 0
            /\ r.originalRisk > 0 =>
                  \* nearest tenth: |10 * percent - tenths| <= 1/2
                  LET err == 2 * (r.riskReduction * 1000
                                  - r.reductionPercent * r.originalRisk)
                  IN  err <= r.originalRisk /\ 0 - err <= r.originalRisk

\* A call on a snapshot of risk 0 whose hypothetical is worse has returned.
C12_Witness ==
    /\ result /= None
    /\ Val(result).returned.originalRisk = 0
    /\ Val(result).returned.newRisk > 0
    /\ Val(result).returned.riskReduction < 0
    /\ Val(result).returned.reductionPercent = 0

-----------------------------------------------------------------------------
(* The data store and its HTTP handlers, src/app/data_store.py, src/app/main.py *)

\* Students generated at start-up (the code generates 50) and the number of
\* ingestion events after which the model stops ingesting.
NumStudents == 2
MaxLog == 2

Ids == StudentId..(StudentId + NumStudents - 1)

\* An id no student has.
UnknownId == StudentId + NumStudents

\* Draws of generate_students for the profiles "excellent" and "moderate",
\* each within the ranges of its profile.
Generated(id) ==
    { Student(id, 95, 0, 0, 8, 95, 8),
      Student(id, 74, 2, 0, 14, 84, 9) }

\* _initialize_data: generate_students(n), then _add_student for each.
GeneratedStores == { st \in [Ids -> UNION { Generated(i) : i \in Ids }] :
                        \A i \in Ids : st[i] \in Generated(i) }

\* A refresh of every id but the highest.
refresh_all_but_last(cache, st, ids) ==
    LET last == CHOOSE x \in ids : \A y \in ids : y <= x
        done == ids \ {last}
    IN  [i \in DOMAIN cache \cup done |-> IF i \in done THEN CacheEntry(st[i]) ELSE cache[i]]

\* for student in students: self._add_student(student), which stores the
\* student and refreshes its cache entry.
RECURSIVE refresh_all(_, _, _)
refresh_all(cache, st, ids) ==
    IF ids = {} THEN cache
    ELSE LET i == CHOOSE x \in ids : \A y \in ids : x <= y
         IN  refresh_all(refresh_risk_cache(cache, st, i), st, ids \ {i})

\* get_dashboard_stats: the counts (the two averages are left out).
get_dashboard_stats(cache) ==
    [totalStudents |-> Cardinality(DOMAIN cache),
     highRisk |-> Cardinality({ i \in DOMAIN cache : cache[i].riskLevel = "High" }),
     moderateRisk |-> Cardinality({ i \in DOMAIN cache : cache[i].riskLevel = "Moderate" }),
     lowRisk |-> Cardinality({ i \in DOMAIN cache : cache[i].riskLevel = "Low" })]

\* raise HTTPException(status_code = 404,
\*                     detail = f"Student with ID {student_id} not found")
NotFound(id) == [status |-> 404, detail |-> id]

\* A lookup that answers a miss with a default record, as dict.get(key, default).
get_student_defaulted(st, id) ==
    IF id \in DOMAIN st THEN Some(st[id]) ELSE Some(Student(id, 100, 0, 0, 1, 100, 1))

\* self._students.get(student_id): None on a miss.
get_student(st, id) == IF id \in DOMAIN st THEN Some(st[id]) ELSE None

\* self._risk_cache.get(student_id): None on a miss.
get_student_risk_detail(cache, id) == IF id \in DOMAIN cache THEN Some(cache[id]) ELSE None

\* self._students[student_id] = student
assign_student(st, id, new) ==
    [i \in DOMAIN st \cup {id} |-> IF i = id THEN new ELSE st[i]]

Init ==
    /\ students \in GeneratedStores
    /\ risk_cache = refresh_all(<<>>, students, Ids)
    /\ ingestion_log = <<>>
    /\ response = None
    /\ student = None
    /\ LevelIdle /\ RiskIdle /\ RuleRiskIdle /\ WhatIfIdle
    /\ AnalyticsIdle

\* old_cache.get("riskScore", 0)
cached_score(cache, id) == IF id \in DOMAIN cache THEN cache[id].riskScore ELSE 0

\* The updated record with the baseline previous_attendance left as it was.
after_attendance_old_baseline(old, attendance_rate) ==
    Student(old.student_id, attendance_rate, old.late_submissions,
            old.missed_submissions, old.workload_tasks,
            old.previous_attendance, old.previous_workload)

\* student = Student(..., attendance_rate = attendance_rate, ...,
\*                   previous_attendance = old_attendance, ...) in ingest_attendance
after_attendance(old, attendance_rate) ==
    Student(old.student_id, attendance_rate, old.late_submissions,
            old.missed_submissions, old.workload_tasks,
            old.attendance_rate, old.previous_workload)

\* POST /ingest/attendance: DataStore.ingest_attendance, 404 when it returns None.
IngestAttendance(id, attendance_rate) ==
    /\ Len(ingestion_log) < MaxLog
    /\ IF get_student(students, id) = None
       THEN /\ response' = Some(NotFound(id))
            /\ UNCHANGED <<students, risk_cache, ingestion_log>>
       ELSE LET old == Val(get_student(students, id))
                old_score == cached_score(risk_cache, id)
                new == after_attendance(old, attendance_rate)
                st == assign_student(students, id, new)
                cache == refresh_risk_cache(risk_cache, st, id)
            IN  /\ students' = st
                /\ risk_cache' = cache
                /\ ingestion_log' = Append(ingestion_log,
                      [type |-> "attendance", studentId |-> id,
                       oldValue |-> old.attendance_rate, newValue |-> attendance_rate,
                       riskChange |-> cache[id].riskScore - old_score])
                /\ response' = Some(
                      [status |-> 200, event |-> "attendance_updated", studentId |-> id,
                       previousAttendance |-> old.attendance_rate,
                       newAttendance |-> attendance_rate,
                       previousRiskScore |-> old_score,
                       newRiskScore |-> cache[id].riskScore,
                       riskLevel |-> cache[id].riskLevel,
                       riskChange |-> cache[id].riskScore - old_score,
                       triggeredRules |-> cache[id].triggeredRules])
    /\ UNCHANGED <<analyticsVars, student, levelVars, risk, ruleRiskVars, whatIfVars>>

\* new_workload without the lower limit of 1.
clamped_workload_unlimited(old_workload, task_count_change) ==
    old_workload + task_count_change

\* new_workload = max(1, old_workload + task_count_change)
clamped_workload(old_workload, task_count_change) ==
    Max(1, old_workload + task_count_change)

\* The updated record when a missing submission is also counted as late.
after_assignment_missing_is_late(old, status, task_count_change) ==
    Student(old.student_id, old.attendance_rate,
            IF status \in {"late", "missing"} THEN old.late_submissions + 1
            ELSE old.late_submissions,
            IF status = "missing" THEN old.missed_submissions + 1
            ELSE old.missed_submissions,
            clamped_workload(old.workload_tasks, task_count_change),
            old.previous_attendance, old.workload_tasks)

\* if status == "late": new_late = old_late + 1
\* elif status == "missing": new_missed = old_missed + 1
\* student = Student(..., late_submissions = new_late, missed_submissions =
\*    new_missed, workload_tasks = new_workload, previous_workload = old_workload)
after_assignment(old, status, task_count_change) ==
    Student(old.student_id, old.attendance_rate,
            IF status = "late" THEN old.late_submissions + 1 ELSE old.late_submissions,
            IF status = "missing" THEN old.missed_submissions + 1
            ELSE old.missed_submissions,
            clamped_workload(old.workload_tasks, task_count_change),
            old.previous_attendance, old.workload_tasks)

\* POST /ingest/assignment: DataStore.ingest_assignment, 404 when it returns None.
IngestAssignment(id, status, task_count_change) ==
    /\ Len(ingestion_log) < MaxLog
    /\ IF get_student(students, id) = None
       THEN /\ response' = Some(NotFound(id))
            /\ UNCHANGED <<students, risk_cache, ingestion_log>>
       ELSE LET old == Val(get_student(students, id))
                old_score == cached_score(risk_cache, id)
                new == after_assignment(old, status, task_count_change)
                new_late == new.late_submissions
                new_missed == new.missed_submissions
                new_workload == new.workload_tasks
                st == assign_student(students, id, new)
                cache == refresh_risk_cache(risk_cache, st, id)
            IN  /\ students' = st
                /\ risk_cache' = cache
                /\ ingestion_log' = Append(ingestion_log,
                      [type |-> "assignment", studentId |-> id, status |-> status,
                       taskChange |-> task_count_change,
                       riskChange |-> cache[id].riskScore - old_score])
                /\ response' = Some(
                      [status |-> 200, event |-> "assignment_recorded", studentId |-> id,
                       submissionStatus |-> status,
                       lateSubmissions |->
                          [previous |-> old.late_submissions, current |-> new_late],
                       missedSubmissions |->
                          [previous |-> old.missed_submissions, current |-> new_missed],
                       workloadTasks |->
                          [previous |-> old.workload_tasks, current |-> new_workload],
                       previousRiskScore |-> old_score,
                       newRiskScore |-> cache[id].riskScore,
                       riskLevel |-> cache[id].riskLevel,
                       riskChange |-> cache[id].riskScore - old_score,
                       triggeredRules |-> cache[id].triggeredRules])
    /\ UNCHANGED <<analyticsVars, student, levelVars, risk, ruleRiskVars, whatIfVars>>

\* POST /reset: DataStore.reset_data clears the three collections and
\* generates the students anew.
ResetData ==
    /\ students' \in GeneratedStores
    /\ risk_cache' = refresh_all(<<>>, students', Ids)
    /\ ingestion_log' = <<>>
    /\ response' = Some([status |-> 200, success |-> TRUE,
                         studentsLoaded |-> Cardinality(DOMAIN students'),
                         stats |-> get_dashboard_stats(risk_cache')])
    /\ UNCHANGED <<analyticsVars, student, levelVars, risk, ruleRiskVars, whatIfVars>>

\* POST /simulate/what-if: the handler passes only the two fix flags.  The
\* response model WhatIfResponse has no "summary" field.
SimulateWhatIf(id, fix_attendance, fix_workload) ==
    /\ IF get_student(students, id) = None
       THEN /\ response' = Some(NotFound(id))
            /\ UNCHANGED students
       ELSE LET s == Val(get_student(students, id))
                P == Params(fix_attendance, fix_workload, None, None, None, None)
            IN  /\ \E ro \in IterationOrders(removed_rules(s, P)),
                      ao \in IterationOrders(added_rules(s, P)) :
                      response' = Some([status |-> 200, studentId |-> id,
                            body |-> what_if_simulation(s, P, ro, ao)])
                /\ students' = assign_student(students, id, student_after_what_if(s, P))
    /\ UNCHANGED <<analyticsVars, risk_cache, ingestion_log, student, levelVars, risk, ruleRiskVars,
                   whatIfVars>>

RequestIds == Ids \cup {UnknownId}
IngestedAttendance == {50}
\* Assignment events as <<status, task_count_change>>: one per status.
AssignmentRequests == {<<"on_time", 0>>, <<"late", 8>>, <<"missing", -30>>}

Next ==
    \/ \E id \in RequestIds, a \in IngestedAttendance : IngestAttendance(id, a)
    \/ \E id \in RequestIds, r \in AssignmentRequests :
          IngestAssignment(id, r[1], r[2])
    \/ ResetData
    \/ \E id \in RequestIds, fa \in BOOLEAN, fw \in BOOLEAN : SimulateWhatIf(id, fa, fw)

Spec == Init /\ [][Next]_vars

-----------------------------------------------------------------------------
(* The trajectory generators:
     src/app/analytics_engine.py        compute_simulated_trend
     src/app/risk_engine.py             simulate_trend
     src/admin-dashboard/risk_engine.py simulate_trend
   The pseudo-random draws of a call are an argument of the operator; the
   action that models the call chooses them. *)

\* range(8) in compute_simulated_trend, weeks = 8 in simulate_trend.
Weeks == 8
\* range(6) in the dashboard's simulate_trend.
DashboardPeriods == 6

\* int(x) of the quotient n / d, d > 0: truncation towards zero.
Trunc(n, d) == IF n >= 0 THEN n \div d ELSE 0 - ((0 - n) \div d)

\* A Python bool used as a number.
AsInt(b) == IF b THEN 1 ELSE 0

\* rising_factors = (anxiety_level > 12) + (depression > 15)
\*                  + (sleep_quality < 2) + (study_load > 3)
rising_factors(r) ==
    AsInt(r.anxiety_level > 12) + AsInt(r.depression > 15)
        + AsInt(r.sleep_quality < 2) + AsInt(r.study_load > 3)

\* The eight values appended by the loop of compute_simulated_trend.
simulated_weeks(r, final_score, noise) ==
    LET base == Max(10, final_score - 25 - rising_factors(r) * 5)
    IN  [k \in 1..Weeks |->
            IF rising_factors(r) >= 2
            THEN Min(100, Max(0, base + Trunc((final_score - base) * (k - 1), Weeks - 1)
                                      + noise[k]))
            ELSE Min(100, Max(0, final_score + noise[k]))]

\* compute_simulated_trend without "trend[-1] = final_score".
compute_simulated_trend_unforced(r, final_score, noise) ==
    simulated_weeks(r, final_score, noise)

\* compute_simulated_trend(row, final_score): the loop, then trend[-1] = final_score.
compute_simulated_trend(r, final_score, noise) ==
    [simulated_weeks(r, final_score, noise) EXCEPT ![Weeks] = final_score]

\* simulate_trend(base_risk) of the app, weeks = 8: start_risk from the draw of
\* randint(20, 40), week_score = int(start_risk + (base_risk - start_risk)
\* * week / 7 + noise) clamped to 0..100, then the last point overwritten.
simulate_trend(base_risk, draw, noise) ==
    LET start_risk == Max(10, base_risk - draw)
        week_score(week) ==
            Max(0, Min(100, Trunc((Weeks - 1) * start_risk
                                    + (base_risk - start_risk) * week
                                    + (Weeks - 1) * noise[week + 1], Weeks - 1)))
        points == [k \in 1..Weeks |->
                      [week |-> k, score |-> week_score(k - 1),
                       level |-> get_risk_level(week_score(k - 1))]]
    IN  [points EXCEPT ![Weeks] =
            [week |-> Weeks, score |-> base_risk, level |-> get_risk_level(base_risk)]]

\* base_risk after the first k additions of the dashboard's loop.
RECURSIVE running_risk(_, _, _)
running_risk(base_risk, steps, k) ==
    IF k = 0 THEN base_risk ELSE running_risk(base_risk, steps, k - 1) + steps[k]

\* simulate_trend(base_risk) of the dashboard: six times
\* base_risk += random.randint(-8, 12); trend.append(max(0, min(100, base_risk))).
dashboard_simulate_trend(base_risk, steps) ==
    [k \in 1..DashboardPeriods |-> Max(0, Min(100, running_risk(base_risk, steps, k)))]

-----------------------------------------------------------------------------
(* SpecTrend: one call of a trajectory generator on a score and a survey row *)

TrendScores == {0, 8, 30, 45, 61, 100}

\* Survey rows on both sides of each threshold of rising_factors.
TrendRows ==
    [anxiety_level : {12, 13}, depression : {15, 16}, sleep_quality : {1, 2},
     social_support : {2}, peer_pressure : {2}, academic_performance : {3},
     bullying : {0}, study_load : {3, 4}, mental_health_history : {0}]

\* Outcomes of randint(-5, 5) / np.random.randint(-5, 6), of randint(20, 40)
\* and of randint(-8, 12): the extremes, and a value between them.
Noise == {-5, 5}
StartDraws == {20, 30, 40}
DashboardSteps == {-8, 0, 12}

InitTrend ==
    /\ score \in TrendScores
    /\ row \in TrendRows
    /\ trend = None
    /\ levels = None /\ rule_risk = None /\ student = None
    /\ ml_prediction = None /\ analytics = None /\ collapse = None
    /\ PersistenceIdle
    /\ RiskIdle /\ WhatIfIdle /\ StoreIdle

\* trend = compute_simulated_trend(row, score)
SimulatedTrend ==
    /\ trend = None
    /\ \E noise \in [1..Weeks -> Noise] :
          trend' = Some([generator |-> "analytics",
                         trajectory |-> compute_simulated_trend(row, score, noise)])
    /\ UNCHANGED <<score, row, levels, rule_risk, riskVars, whatIfVars, storeVars,
                   ml_prediction, analytics, collapse, persistenceVars>>

\* trend = simulate_trend(score), the app's
SimulateTrend ==
    /\ trend = None
    /\ \E draw \in StartDraws, noise \in [1..Weeks -> Noise] :
          trend' = Some([generator |-> "app",
                         trajectory |-> simulate_trend(score, draw, noise)])
    /\ UNCHANGED <<score, row, levels, rule_risk, riskVars, whatIfVars, storeVars,
                   ml_prediction, analytics, collapse, persistenceVars>>

\* trend = simulate_trend(score), the dashboard's
DashboardSimulateTrend ==
    /\ trend = None
    /\ \E steps \in [1..DashboardPeriods -> DashboardSteps] :
          trend' = Some([generator |-> "dashboard",
                         trajectory |-> dashboard_simulate_trend(score, steps)])
    /\ UNCHANGED <<score, row, levels, rule_risk, riskVars, whatIfVars, storeVars,
                   ml_prediction, analytics, collapse, persistenceVars>>

NextTrend ==
    \/ SimulatedTrend
    \/ SimulateTrend
    \/ DashboardSimulateTrend

SpecTrend == InitTrend /\ [][NextTrend]_vars

TrendOf(generator) == trend /= None /\ Val(trend).generator = generator

\* C13: for every score in 0..100 and every outcome of the noise, the last of
\* the eight elements returned by compute_simulated_trend(row, final_score) is
\* final_score, and the last of the eight points returned by the app's
\* simulate_trend(base_risk) has score base_risk and level
\* get_risk_level(base_risk).
C13_Continuity8 ==
    /\ TrendOf("analytics") =>
          /\ Len(Val(trend).trajectory) = 8
          /\ Val(trend).trajectory[8] = score
    /\ TrendOf("app") =>
          /\ Len(Val(trend).trajectory) = 8
          /\ Val(trend).trajectory[8].score = score
          /\ Val(trend).trajectory[8].level = get_risk_level(score)

\* A rising trajectory whose loop left a last value other than the score: the
\* score is 100 and every earlier week lies below it.
C13_Witness ==
    /\ TrendOf("analytics")
    /\ score = 100
    /\ rising_factors(row) >= 2
    /\ \A k \in 1..7 : Val(trend).trajectory[k] < 100
    /\ Val(trend).trajectory[8] = 100

\* C14: the last of the six elements returned by the dashboard's
\* simulate_trend(base_risk) equals base_risk, for every base_risk in 0..100
\* and every outcome of the steps.
C14_Continuity6 ==
    TrendOf("dashboard") =>
        /\ Len(Val(trend).trajectory) = 6
        /\ Val(trend).trajectory[6] = score

-----------------------------------------------------------------------------
(* Silent-collapse scoring, src/app/analytics_engine.py.  slope and
   volatility are floats rounded to three decimals; the model holds them in
   thousandths.  The float results agree with the exact ones except at exact
   rounding ties of the slope, which lie at thousandths of the form 25 j + 12.5
   and so at none of the thresholds compared against. *)

RECURSIVE SumOver(_, _)
SumOver(f, k) == IF k = 0 THEN 0 ELSE SumOver(f, k - 1) + f[k]

\* sqrt(m / d) rounded to the nearest integer, searched in lo..hi: the largest
\* t with (2 t - 1)^2 * d <= 4 m.
RECURSIVE RoundedRoot(_, _, _, _)
RoundedRoot(lo, hi, m, d) ==
    IF lo = hi THEN lo
    ELSE LET mid == (lo + hi + 1) \div 2
         IN  IF (2 * mid - 1) * (2 * mid - 1) * d <= 4 * m
             THEN RoundedRoot(mid, hi, m, d) ELSE RoundedRoot(lo, mid - 1, m, d)

\* compute_stress_slope(trend), x = 0..n-1:
\* (n * sum(x*y) - sum(x) * sum(y)) / (n * sum(x**2) - sum(x)**2) / 10,
\* clipped to -1..1 and rounded to three decimals.
compute_stress_slope(t) ==
    LET n == Len(t)
        sum_xy == SumOver([k \in 1..n |-> (k - 1) * t[k]], n)
        sum_x == SumOver([k \in 1..n |-> k - 1], n)
        sum_xx == SumOver([k \in 1..n |-> (k - 1) * (k - 1)], n)
        sum_y == SumOver(t, n)
        numerator == n * sum_xy - sum_x * sum_y
        denominator == n * sum_xx - sum_x * sum_x
    IN  IF n < 2 THEN 0
        ELSE Max(-1000, Min(1000, Round(1000 * numerator, 10 * denominator)))

\* compute_stress_volatility(trend): min(1.0, np.std(trend) / 25) rounded to
\* three decimals, where np.std is sqrt(n * sum(y**2) - sum(y)**2) / n and is
\* at most 50 for values in 0..100.  In thousandths the quotient is
\* sqrt(1000^2 * spread / (25^2 * n^2)) = sqrt(1600 * spread / n^2).
compute_stress_volatility(t) ==
    LET n == Len(t)
        sum_y == SumOver(t, n)
        sum_yy == SumOver([k \in 1..n |-> t[k] * t[k]], n)
        spread == n * sum_yy - sum_y * sum_y
    IN  IF n < 2 THEN 0
        ELSE Min(1000, RoundedRoot(0, 2000, 1600 * spread, n * n))

\* compute_persistence_score(trend, threshold = 40): the longest run of
\* consecutive scores >= threshold.
RECURSIVE persistence_run(_, _)
persistence_run(t, k) ==
    IF k = 0 \/ t[k] < 40 THEN 0 ELSE persistence_run(t, k - 1) + 1

\* A persistence score that counts every period at or above the threshold,
\* consecutive or not.
compute_persistence_score_total(t) ==
    Cardinality({ k \in 1..Len(t) : t[k] >= 40 })

compute_persistence_score(t) ==
    LET runs == { persistence_run(t, k) : k \in 1..Len(t) }
    IN  IF runs = {} THEN 0 ELSE CHOOSE m \in runs : \A r \in runs : r <= m

\* A driver text; the two persistence drivers show the number of periods.
Driver(name, shown) == [driver |-> name, shown |-> shown]

\* A factor that adds its points without naming its driver.
AppendIf_unnamed(acc, cond, points, driver) ==
    IF cond THEN [score |-> acc.score + points, drivers |-> acc.drivers]
    ELSE acc

\* if <cond>: collapse_score += points; drivers.append(driver)
AppendIf(acc, cond, points, driver) ==
    IF cond THEN [score |-> acc.score + points, drivers |-> Append(acc.drivers, driver)]
    ELSE acc

\* The collapse level of a score with the Watch threshold one point too high.
collapse_level_late_watch(collapse_score) ==
    IF collapse_score >= 60 THEN "Elevated"
    ELSE IF collapse_score > 35 THEN "Watch" ELSE "Low"

\* if collapse_score >= 60: "Elevated" elif collapse_score >= 35: "Watch" else "Low"
collapse_level(collapse_score) ==
    IF collapse_score >= 60 THEN "Elevated"
    ELSE IF collapse_score >= 35 THEN "Watch" ELSE "Low"

\* A result that carries no drivers.
collapse_drivers_dropped(drivers, level) == <<>>

\* if not drivers and level != "Low": drivers = ["Pattern under observation"]
collapse_drivers(drivers, level) ==
    IF drivers = <<>> /\ level /= "Low"
    THEN <<Driver("Pattern under observation", 0)>> ELSE drivers

\* compute_silent_collapse_risk(row, final_score, final_level), the trajectory
\* generated with the given noise.  slope, volatility, persistence and trend
\* are the function's locals.
compute_silent_collapse_risk(r, final_score, final_level, noise) ==
    LET t == compute_simulated_trend(r, final_score, noise)
        slope == compute_stress_slope(t)
        volatility == compute_stress_volatility(t)
        persistence == compute_persistence_score(t)
        academic_perf == r.academic_performance
        f1 == [score |-> IF final_level = "High" THEN 25
                         ELSE IF final_level = "Moderate" THEN 15 ELSE 0,
               drivers |-> <<>>]
        f2 == IF slope > 300
              THEN AppendIf(f1, TRUE, 25, Driver("Sustained stress increase observed", 0))
              ELSE AppendIf(f1, slope > 150, 15, Driver("Gradual stress increase pattern", 0))
        f3 == IF volatility > 500
              THEN AppendIf(f2, TRUE, 20, Driver("Elevated stress variability", 0))
              ELSE AppendIf(f2, volatility > 300, 10, Driver("Moderate stress fluctuations", 0))
        f4 == IF persistence >= 5
              THEN AppendIf(f3, TRUE, 20, Driver("Extended support need", persistence))
              ELSE AppendIf(f3, persistence >= 3, 10,
                            Driver("Recurring support indicators", persistence))
        f5 == AppendIf(f4, academic_perf >= 2 /\ final_score >= 40, 15,
                       Driver("Academic stability masking internal strain", 0))
        f6 == AppendIf(f5, slope > 200 /\ persistence >= 3 /\ academic_perf >= 2, 10,
                       Driver("Multi-period pattern warrants attention", 0))
        collapse_score == Min(100, f6.score)
    IN  [level |-> collapse_level(collapse_score),
         score |-> collapse_score,
         drivers |-> collapse_drivers(f6.drivers, collapse_level(collapse_score)),
         trend |-> t, slope |-> slope, volatility |-> volatility,
         persistence |-> persistence]

-----------------------------------------------------------------------------
(* SpecCollapse: compute_silent_collapse_risk(row, final_score, final_level)
   as _compute_student_analytics calls it: final_level is the level of
   final_score, and final_score is a value the fusion can produce. *)

CollapseScores == {9, 31, 39, 41, 60, 61, 88}

CollapseRows ==
    [anxiety_level : {12, 13}, depression : {15, 16}, sleep_quality : {1, 2},
     social_support : {2}, peer_pressure : {2}, academic_performance : {1, 2},
     bullying : {0}, study_load : {3, 4}, mental_health_history : {0}]

InitCollapse ==
    /\ score \in CollapseScores
    /\ row \in CollapseRows
    /\ collapse = None
    /\ levels = None /\ rule_risk = None /\ student = None
    /\ ml_prediction = None /\ analytics = None /\ trend = None
    /\ PersistenceIdle
    /\ RiskIdle /\ WhatIfIdle /\ StoreIdle

\* collapse = compute_silent_collapse_risk(row, score, get_risk_level(score))
ComputeSilentCollapseRisk ==
    /\ collapse = None
    /\ \E noise \in [1..Weeks -> Noise] :
          collapse' = Some(compute_silent_collapse_risk(
                              row, score, analytics_get_risk_level(score), noise))
    /\ UNCHANGED <<score, row, levels, rule_risk, riskVars, whatIfVars, storeVars,
                   ml_prediction, analytics, trend, persistenceVars>>

NextCollapse == ComputeSilentCollapseRisk

SpecCollapse == InitCollapse /\ [][NextCollapse]_vars

\* The points of the six factors of the collapse table.
CollapsePoints(level, final_score, slope, volatility, persistence, academic_performance) ==
    (IF level \in {"Moderate", "High"} THEN 15 ELSE 0)
    + (IF level = "High" THEN 10 ELSE 0)
    + (IF slope > 300 THEN 25 ELSE IF slope > 150 THEN 15 ELSE 0)
    + (IF volatility > 500 THEN 20 ELSE IF volatility > 300 THEN 10 ELSE 0)
    + (IF persistence >= 5 THEN 20 ELSE IF persistence >= 3 THEN 10 ELSE 0)
    + (IF academic_performance >= 2 /\ final_score >= 40 THEN 15 ELSE 0)
    + (IF slope > 200 /\ persistence >= 3 /\ academic_performance >= 2 THEN 10 ELSE 0)

\* C15: the collapse score is min(100, the sum over the six factors) of the
\* final level, final score, slope, volatility, persistence and
\* academic_performance, and the collapse level is Elevated from 60, Watch
\* from 35, otherwise Low.
C15_CollapseTable ==
    collapse /= None =>
        LET c == Val(collapse)
            points == CollapsePoints(analytics_get_risk_level(score), score, c.slope,
                                     c.volatility, c.persistence,
                                     row.academic_performance)
        IN  /\ c.score = (IF points < 100 THEN points ELSE 100)
            /\ c.score >= 60 => c.level = "Elevated"
            /\ (c.score >= 35 /\ c.score < 60) => c.level = "Watch"
            /\ c.score < 35 => c.level = "Low"

\* Every factor scored its larger amount: the sum 115 was capped to 100.
C15_Witness ==
    /\ collapse /= None
    /\ score = 88
    /\ Val(collapse).slope > 300 /\ Val(collapse).volatility > 500
    /\ Val(collapse).persistence >= 5 /\ row.academic_performance = 2
    /\ Val(collapse).score = 100
    /\ Val(collapse).level = "Elevated"

\* C16: whenever the returned collapse score is at least 35 (level Watch or
\* Elevated) the returned drivers list is not empty.
C16_CollapseFloor ==
    (collapse /= None /\ Val(collapse).score >= 35) =>
        /\ Val(collapse).level \in {"Watch", "Elevated"}
        /\ Val(collapse).drivers /= <<>>

\* A Watch result: score 35..59 with its drivers.
C16_Witness ==
    /\ collapse /= None
    /\ Val(collapse).score >= 35
    /\ Val(collapse).level = "Watch"
    /\ Len(Val(collapse).drivers) >= 1

-----------------------------------------------------------------------------
(* SpecFusion: AnalyticsEngine._compute_student_analytics on a survey row and
   the label predicted for it *)

\* A proxy that spreads the labels over the whole scale 0..100.
ml_score_proxy_full_scale(label) ==
    CASE label = 0 -> 0
      [] label = 1 -> 50
      [] label = 2 -> 100
      [] OTHER -> 50

\* {0: 15, 1: 45, 2: 80}.get(ml_prediction, 45)
ml_score_proxy(label) ==
    CASE label = 0 -> 15
      [] label = 1 -> 45
      [] label = 2 -> 80
      [] OTHER -> 45

\* The fusion with the two weights exchanged.
fusion_score_swapped(ml_score, rule_score) == (4 * ml_score + 6 * rule_score) \div 10

\* int(0.6 * ml_score + 0.4 * rule_score).  Both are non-negative, so int() is
\* the floor; the float sum yields the exact floor for ml_score in
\* {15, 45, 80} and every rule_score in 0..100.
fusion_score(ml_score, rule_score) == (6 * ml_score + 4 * rule_score) \div 10

\* The StudentAnalytics returned.  mlConfidence, shapExplanation and the
\* survey values echoed are left out: nothing below reads them; the
\* silentCollapseRisk field is what SpecCollapse computes.
compute_student_analytics(student_id, r, label) ==
    LET rule == compute_rule_risk(r)
        final_score == fusion_score(ml_score_proxy(label), rule.score)
    IN  [studentId |-> student_id,
         finalRiskLevel |-> analytics_get_risk_level(final_score),
         finalRiskScore |-> final_score,
         mlPrediction |-> label,
         ruleRiskScore |-> rule.score,
         ruleTriggers |-> rule.triggers]

\* The classifier's labels 0, 1, 2, and a label outside them.
Labels == {0, 1, 2, 3}

InitFusion ==
    /\ row \in Rows
    /\ ml_prediction \in { Some(label) : label \in Labels }
    /\ analytics = None
    /\ rule_risk = None /\ student = None /\ trend = None /\ collapse = None
    /\ PersistenceIdle
    /\ LevelIdle /\ RiskIdle /\ WhatIfIdle /\ StoreIdle

\* analytics = self._compute_student_analytics(student_id, row)
ComputeStudentAnalytics ==
    /\ analytics = None
    /\ analytics' = Some(compute_student_analytics(0, row, Val(ml_prediction)))
    /\ UNCHANGED <<row, ml_prediction, rule_risk, trend, collapse, persistenceVars, levelVars,
                   riskVars, whatIfVars, storeVars>>

NextFusion == ComputeStudentAnalytics

SpecFusion == InitFusion /\ [][NextFusion]_vars

\* C17: the final score is floor(0.6 * proxy + 0.4 * ruleScore), proxy 15 for
\* label 0, 45 for label 1, 80 for label 2 and 45 for any other label; the
\* final level is the psychometric mapping of the final score; label 2 with
\* ruleScore 50 gives 68 and High.
C17_Fusion ==
    analytics /= None =>
        LET a == Val(analytics)
            proxy == IF a.mlPrediction = 0 THEN 15
                     ELSE IF a.mlPrediction = 2 THEN 80 ELSE 45
        IN  /\ a.ruleRiskScore = compute_rule_risk(row).score
            \* floor(x) = f  iff  f <= x < f + 1, with x = (6 proxy + 4 rule) / 10
            /\ 10 * a.finalRiskScore <= 6 * proxy + 4 * a.ruleRiskScore
            /\ 6 * proxy + 4 * a.ruleRiskScore < 10 * (a.finalRiskScore + 1)
            /\ a.finalRiskLevel = (IF a.finalRiskScore < 31 THEN "Low"
                                   ELSE IF a.finalRiskScore < 61 THEN "Moderate"
                                   ELSE "High")
            /\ (a.mlPrediction = 2 /\ a.ruleRiskScore = 50) =>
                  (a.finalRiskScore = 68 /\ a.finalRiskLevel = "High")

\* The worked example: label 2 and a row whose rules sum to 50.
C17_Witness ==
    /\ analytics /= None
    /\ Val(analytics).mlPrediction = 2
    /\ Val(analytics).ruleRiskScore = 50
    /\ Val(analytics).finalRiskScore = 68
    /\ Val(analytics).finalRiskLevel = "High"

-----------------------------------------------------------------------------
(* SpecStore: the store under ingestions and resets, read through
   GET /students/at-risk *)

\* The entry of the at-risk listing for a cache entry (name, email, department,
\* year and anomalyScore are left out: nothing below reads them).
at_risk_entry(data) ==
    [studentId |-> data.studentId,
     riskScore |-> data.riskScore,
     riskLevel |-> data.riskLevel,
     flagCount |-> Len(data.triggeredRules)]

\* sorted(..., key = riskScore) without reverse = True: the lowest score first.
RECURSIVE sorted_ascending(_, _)
sorted_ascending(cache, ids) ==
    IF ids = {} THEN <<>>
    ELSE LET first == CHOOSE i \in ids :
                         \A j \in ids :
                            \/ cache[i].riskScore < cache[j].riskScore
                            \/ cache[i].riskScore = cache[j].riskScore /\ i <= j
         IN  <<at_risk_entry(cache[first])>> \o sorted_ascending(cache, ids \ {first})

\* sorted(at_risk, key = lambda x: x["riskScore"], reverse = True): the sort is
\* stable, so equal scores keep the order of self._risk_cache.values(), which
\* is the order of insertion: ascending student id.
RECURSIVE sorted_descending(_, _)
sorted_descending(cache, ids) ==
    IF ids = {} THEN <<>>
    ELSE LET first == CHOOSE i \in ids :
                         \A j \in ids :
                            \/ cache[i].riskScore > cache[j].riskScore
                            \/ cache[i].riskScore = cache[j].riskScore /\ i <= j
         IN  <<at_risk_entry(cache[first])>> \o sorted_descending(cache, ids \ {first})

\* get_at_risk_students sorting the lowest score first.
get_at_risk_students_ascending(cache) ==
    sorted_ascending(cache,
        { i \in DOMAIN cache : cache[i].riskLevel \in {"Moderate", "High"} })

\* DataStore.get_at_risk_students
get_at_risk_students(cache) ==
    sorted_descending(cache,
        { i \in DOMAIN cache : cache[i].riskLevel \in {"Moderate", "High"} })

\* GET /students/at-risk
GetAtRiskStudents ==
    /\ response' = Some([status |-> 200, atRisk |-> get_at_risk_students(risk_cache)])
    /\ UNCHANGED <<students, risk_cache, ingestion_log, analyticsVars, student,
                   levelVars, risk, ruleRiskVars, whatIfVars>>

\* Attendance rates at the two ends of what AttendanceIngestRequest accepts.
StoreAttendance == {0, 100}

NextStore ==
    \/ \E id \in RequestIds, a \in StoreAttendance : IngestAttendance(id, a)
    \/ \E id \in RequestIds, r \in AssignmentRequests :
          IngestAssignment(id, r[1], r[2])
    \/ ResetData
    \/ GetAtRiskStudents

SpecStore == Init /\ [][NextStore]_vars

\* C18: an on_time assignment ingestion with task_count_change 0 changes no
\* risk: the event it logs has riskChange 0, the cached score after the call
\* being the cached score before it.
C18_OnTimeNoRiskChange ==
    \A k \in 1..Len(ingestion_log) :
        (/\ ingestion_log[k].type = "assignment"
         /\ ingestion_log[k].status = "on_time"
         /\ ingestion_log[k].taskChange = 0) => ingestion_log[k].riskChange = 0

\* C19: after initialization and after any sequence of attendance ingestions
\* (rate within 0..100), assignment ingestions (any status, positive or
\* negative task_count_change) and resets, every stored student has
\* late_submissions >= 0, missed_submissions >= 0, workload_tasks >= 1,
\* previous_workload >= 1, and attendance_rate and previous_attendance in 0..100.
C19_StoredSnapshot ==
    \A id \in DOMAIN students :
        /\ students[id].late_submissions >= 0
        /\ students[id].missed_submissions >= 0
        /\ students[id].workload_tasks >= 1
        /\ students[id].previous_workload >= 1
        /\ students[id].attendance_rate >= 0 /\ students[id].attendance_rate <= 100
        /\ students[id].previous_attendance >= 0
        /\ students[id].previous_attendance <= 100

\* A student whose workload was cut below 1 by a missing assignment and
\* clamped to 1, and whose attendance rate was then set to 0.
C19_Witness ==
    \E id \in DOMAIN students :
        /\ students[id].workload_tasks = 1
        /\ students[id].missed_submissions >= 1
        /\ students[id].attendance_rate = 0
        /\ Len(ingestion_log) >= 2

AtRiskListed == response /= None /\ "atRisk" \in DOMAIN Val(response)

\* C20: the at-risk listing holds exactly the students whose cached level is
\* Moderate or High, each once, in order of non-increasing risk score, each
\* with flagCount the number of rules the student triggers; after any
\* sequence of ingestions.
C20_AtRiskListing ==
    AtRiskListed =>
        LET body == Val(response).atRisk
            listed == { body[k].studentId : k \in 1..Len(body) }
        IN  /\ listed = { id \in DOMAIN students :
                            risk_cache[id].riskLevel \in {"Moderate", "High"} }
            /\ Cardinality(listed) = Len(body)
            /\ \A k \in 1..Len(body) : body[k].riskLevel /= "Low"
            /\ \A k \in 1..(Len(body) - 1) : body[k].riskScore >= body[k + 1].riskScore
            /\ \A k \in 1..Len(body) :
                  /\ body[k].riskScore = compute_risk(students[body[k].studentId]).score
                  /\ body[k].riskLevel =
                        get_risk_level(compute_risk(students[body[k].studentId]).score)
                  /\ body[k].flagCount =
                        Len(compute_risk(students[body[k].studentId]).reasons)

\* After ingestions the listing holds two students of different scores, the
\* higher first and the one with the higher id.
C20_Witness ==
    /\ AtRiskListed
    /\ ingestion_log /= <<>>
    /\ Len(Val(response).atRisk) >= 2
    /\ Val(response).atRisk[1].riskScore > Val(response).atRisk[2].riskScore
    /\ Val(response).atRisk[1].studentId > Val(response).atRisk[2].studentId

-----------------------------------------------------------------------------
(* SpecPersistence: compute_persistence_score on trends of up to MaxPeriods
   scores, with the default threshold 40 *)

MaxPeriods == 4

\* Scores below, just below, at and above the threshold.
PeriodScores == {0, 39, 40, 100}

Trends == UNION { [1..n -> PeriodScores] : n \in 0..MaxPeriods }

InitPersistence ==
    /\ periods \in { Some(t) : t \in Trends }
    /\ persistence_score = None
    /\ row = None /\ rule_risk = None /\ student = None
    /\ ml_prediction = None /\ analytics = None /\ trend = None /\ collapse = None
    /\ LevelIdle /\ RiskIdle /\ WhatIfIdle /\ StoreIdle

\* persistence_score = compute_persistence_score(periods)
ComputePersistenceScore ==
    /\ persistence_score = None
    /\ persistence_score' = Some(compute_persistence_score(Val(periods)))
    /\ UNCHANGED <<periods, row, rule_risk, ml_prediction, analytics, trend, collapse,
                   levelVars, riskVars, whatIfVars, storeVars>>

NextPersistence == ComputePersistenceScore

SpecPersistence == InitPersistence /\ [][NextPersistence]_vars

\* The periods i..j of t all reach the threshold.
IsRun(t, i, j) == \A k \in i..j : t[k] >= 40

\* C21: compute_persistence_score returns the length of the longest run of
\* consecutive elements >= 40: 0 when no element reaches 40 or the trend is
\* empty, len(trend) when all do, and a run interrupted by an element below
\* 40 is not counted across the interruption.
C21_Persistence ==
    persistence_score /= None =>
        LET t == Val(periods)
            p == Val(persistence_score)
        IN  /\ p \in 0..Len(t)
            /\ p > 0 => \E i \in 1..Len(t) : i + p - 1 <= Len(t) /\ IsRun(t, i, i + p - 1)
            /\ \A i \in 1..Len(t) : \A j \in i..Len(t) : IsRun(t, i, j) => j - i + 1 <= p
            /\ (\A k \in 1..Len(t) : t[k] < 40) => p = 0
            /\ (\A k \in 1..Len(t) : t[k] >= 40) => p = Len(t)
            /\ t = <<40, 100, 39, 40>> => p = 2

\* A trend whose two periods at or above 40 are separated by one below it.
C21_Witness ==
    /\ persistence_score /= None
    /\ Val(periods) = <<40, 39, 100>>
    /\ Val(persistence_score) = 1

-----------------------------------------------------------------------------
(* Properties of the store under SpecStore *)

\* C22: in every state reached by initialization, ingest_attendance,
\* ingest_assignment and reset_data the risk cache has exactly the keys of the
\* student records, and each entry's riskScore, riskLevel and triggeredRules
\* are compute_risk / get_risk_level of the student's stored snapshot.
C22_CacheConsistent ==
    /\ DOMAIN risk_cache = DOMAIN students
    /\ \A id \in DOMAIN students :
          /\ risk_cache[id].studentId = id
          /\ risk_cache[id].riskScore = compute_risk(students[id]).score
          /\ risk_cache[id].riskLevel = get_risk_level(compute_risk(students[id]).score)
          /\ risk_cache[id].triggeredRules = compute_risk(students[id]).reasons

\* Two ingestions have changed a student's score, and the cache shows the
\* score of the record now stored, not the one generated.
C22_Witness ==
    /\ Len(ingestion_log) = 2
    /\ \E id \in DOMAIN students :
          /\ ingestion_log[1].studentId = id /\ ingestion_log[2].studentId = id
          /\ ingestion_log[1].riskChange /= 0
          /\ ingestion_log[2].riskChange /= 0
          /\ risk_cache[id].riskScore = compute_risk(students[id]).score

\* The step appended an event of the given type to the ingestion log.
Logged(type) ==
    /\ Len(ingestion_log') = Len(ingestion_log) + 1
    /\ ingestion_log'[Len(ingestion_log')].type = type

\* C23: ingest_attendance(id, a) on an existing student replaces the record by
\* one with attendance_rate = a and previous_attendance = the rate held
\* before; the student's late and missed counts, workload, previous workload
\* and id, and every other student's record, are unchanged; the returned
\* previousRiskScore and newRiskScore are the cached scores before and after,
\* and riskChange is their difference.
C23_AttendanceFrame ==
    [][Logged("attendance") =>
          LET event == ingestion_log'[Len(ingestion_log')]
              id == event.studentId
              r == Val(response')
          IN  /\ id \in DOMAIN students
              /\ DOMAIN students' = DOMAIN students
              /\ students'[id].attendance_rate = event.newValue
              /\ students'[id].attendance_rate = r.newAttendance
              /\ students'[id].previous_attendance = students[id].attendance_rate
              /\ r.previousAttendance = students[id].attendance_rate
              /\ students'[id].late_submissions = students[id].late_submissions
              /\ students'[id].missed_submissions = students[id].missed_submissions
              /\ students'[id].workload_tasks = students[id].workload_tasks
              /\ students'[id].previous_workload = students[id].previous_workload
              /\ students'[id].student_id = students[id].student_id
              /\ \A other \in DOMAIN students \ {id} : students'[other] = students[other]
              /\ r.previousRiskScore = risk_cache[id].riskScore
              /\ r.newRiskScore = risk_cache'[id].riskScore
              /\ r.riskChange = r.newRiskScore - r.previousRiskScore
    ]_vars

\* An attendance ingestion that changed the rate has returned: the record
\* holds the new rate and, as previous attendance, the old one.
C23_Witness ==
    /\ ingestion_log /= <<>>
    /\ response /= None /\ "newAttendance" \in DOMAIN Val(response)
    /\ LET event == ingestion_log[Len(ingestion_log)]
       IN  /\ event.type = "attendance"
           /\ event.oldValue /= event.newValue
           /\ students[event.studentId].attendance_rate = event.newValue
           /\ students[event.studentId].previous_attendance = event.oldValue
           /\ Val(response).riskChange /= 0

\* The step is a reset: its response reports the students loaded.
IsReset == response' /= None /\ "studentsLoaded" \in DOMAIN Val(response')

\* C24: ingest_assignment(id, status, d) on an existing student sets
\* late_submissions to old + 1 iff status is "late", missed_submissions to
\* old + 1 iff status is "missing", workload_tasks to max(1, old + d) and
\* previous_workload to the old workload_tasks; attendance_rate and
\* previous_attendance are unchanged; and over any steps other than resets no
\* student's late or missed count decreases.
C24_AssignmentEffect ==
    [][/\ Logged("assignment") =>
             LET event == ingestion_log'[Len(ingestion_log')]
                 id == event.studentId
                 old == students[id]
                 new == students'[id]
                 sum == old.workload_tasks + event.taskChange
             IN  /\ new.late_submissions =
                       old.late_submissions + (IF event.status = "late" THEN 1 ELSE 0)
                 /\ new.missed_submissions =
                       old.missed_submissions + (IF event.status = "missing" THEN 1 ELSE 0)
                 /\ new.workload_tasks = (IF sum >= 1 THEN sum ELSE 1)
                 /\ new.previous_workload = old.workload_tasks
                 /\ new.attendance_rate = old.attendance_rate
                 /\ new.previous_attendance = old.previous_attendance
       /\ ~IsReset =>
             \A id \in DOMAIN students :
                /\ id \in DOMAIN students'
                /\ students'[id].late_submissions >= students[id].late_submissions
                /\ students'[id].missed_submissions >= students[id].missed_submissions
    ]_vars

\* A missing assignment with a workload cut that was clamped, after a late one.
C24_Witness ==
    /\ Len(ingestion_log) = 2
    /\ ingestion_log[1].type = "assignment" /\ ingestion_log[1].status = "late"
    /\ ingestion_log[2].type = "assignment" /\ ingestion_log[2].status = "missing"
    /\ ingestion_log[1].studentId = ingestion_log[2].studentId
    /\ LET rec == students[ingestion_log[2].studentId]
       IN  /\ rec.workload_tasks = 1
           /\ rec.previous_workload > 1
           /\ rec.missed_submissions >= 1
           /\ rec.late_submissions >= 1

-----------------------------------------------------------------------------
(* SpecLookup: requests that name a student, for ids the store has and for
   one it has not: the two ingestions, POST /simulate/what-if and
   GET /risk/{student_id}. *)

\* GET /risk/{student_id}: 404 when get_student_risk_detail returns None.
GetStudentRiskDetail(id) ==
    /\ LET detail == get_student_risk_detail(risk_cache, id)
       IN  response' = IF detail = None THEN Some(NotFound(id))
                       ELSE Some([status |-> 200, studentId |-> id,
                                  body |-> Val(detail)])
    /\ UNCHANGED <<analyticsVars, students, risk_cache, ingestion_log, student,
                   levelVars, risk, ruleRiskVars, whatIfVars>>

LookupAttendance == {0}
LookupAssignments == {<<"missing", -30>>}

NextLookup ==
    \/ \E id \in RequestIds, a \in LookupAttendance : IngestAttendance(id, a)
    \/ \E id \in RequestIds, r \in LookupAssignments :
          IngestAssignment(id, r[1], r[2])
    \/ \E id \in RequestIds, fa \in BOOLEAN, fw \in BOOLEAN : SimulateWhatIf(id, fa, fw)
    \/ \E id \in RequestIds : GetStudentRiskDetail(id)

SpecLookup == Init /\ [][NextLookup]_vars

\* C25: a request answered 404 names an id that neither the student records
\* nor the risk cache hold, and leaves the records, the cache and the
\* ingestion log as they were; a request answered 200 names an id the store
\* holds.  So an ingestion, a what-if request or a risk-detail request on an
\* unknown id is answered 404 and changes nothing.
C25_UnknownIdentity ==
    [][LET r == Val(response')
       IN  /\ r.status = 404 =>
                 /\ r.detail \notin DOMAIN students
                 /\ r.detail \notin DOMAIN risk_cache
                 /\ UNCHANGED <<students, risk_cache, ingestion_log>>
           /\ r.status = 200 =>
                 /\ r.studentId \in DOMAIN students
                 /\ r.studentId \in DOMAIN students'
                 /\ DOMAIN risk_cache' = DOMAIN students'
                 /\ DOMAIN students' = DOMAIN students]_vars

\* After two ingestions have changed the store, a request on the unknown id
\* has been answered 404.
C25_Witness ==
    /\ response = Some(NotFound(UnknownId))
    /\ Len(ingestion_log) = 2
    /\ \E id \in DOMAIN students : students[id].attendance_rate = 0

-----------------------------------------------------------------------------
(* SpecEvents: ingestions and GET /events *)

RECURSIVE Reverse(_)
Reverse(seq) ==
    IF seq = <<>> THEN <<>> ELSE Append(Reverse(Tail(seq)), Head(seq))

\* The first index (from 0) of the slice lst[-limit:] of a list of n elements:
\* a negative bound -limit counts from the end and is clamped at 0, the bound
\* -0 is 0, and a positive bound is clamped at n.
slice_start(n, limit) ==
    IF limit > 0 THEN Max(n - limit, 0)
    ELSE IF limit = 0 THEN 0
    ELSE Min(0 - limit, n)

\* return self._ingestion_log[-limit:][::-1]
get_ingestion_log(log, limit) ==
    Reverse(SubSeq(log, slice_start(Len(log), limit) + 1, Len(log)))

\* GET /events?limit=...: the query parameter is an int without constraints.
GetIngestionEvents(limit) ==
    /\ response' = Some([status |-> 200, limit |-> limit,
                         events |-> get_ingestion_log(ingestion_log, limit),
                         count |-> Len(get_ingestion_log(ingestion_log, limit))])
    /\ UNCHANGED <<analyticsVars, students, risk_cache, ingestion_log, student,
                   levelVars, risk, ruleRiskVars, whatIfVars>>

\* Limits below, within and above the number of logged events.
Limits == (0 - 1)..(MaxLog + 1)

NextEvents ==
    \/ \E id \in RequestIds, a \in LookupAttendance : IngestAttendance(id, a)
    \/ \E id \in RequestIds, r \in LookupAssignments :
          IngestAssignment(id, r[1], r[2])
    \/ \E limit \in Limits : GetIngestionEvents(limit)

SpecEvents == Init /\ [][NextEvents]_vars

EventsListed == response /= None /\ "events" \in DOMAIN Val(response)

\* C26: for every limit >= 0, GET /events returns min(limit, number of logged
\* events) events, the most recently appended ones newest first, and a count
\* that equals the number of events returned and does not exceed limit.
C26_LogRetrieval ==
    (EventsListed /\ Val(response).limit >= 0) =>
        LET r == Val(response)
            n == Len(ingestion_log)
            k == Min(r.limit, n)
        IN  /\ Len(r.events) = k
            /\ \A i \in 1..Len(r.events) :
                  i <= n => r.events[i] = ingestion_log[n + 1 - i]
            /\ r.count = Len(r.events)
            /\ r.count <= r.limit

-----------------------------------------------------------------------------
(* The boolean fixes of the what-if simulator, under SpecWhatIf *)

\* The keyword arguments POST /simulate/what-if passes: the two flags and no
\* granular target.
FlagsOnly(P) ==
    /\ P.attendance_target = None /\ P.workload_target = None
    /\ P.late_subs_target = None /\ P.missed_subs_target = None

\* C27: for every snapshot with workload_tasks >= 1 and previous_workload >= 1,
\* a call with only fix_attendance and/or fix_workload returns
\* newRisk <= originalRisk, riskReduction >= 0 and an explanation without a
\* 'Triggered' entry.
C27_FixesNeverWorse ==
    (/\ result /= None
     /\ FlagsOnly(Val(params))
     /\ student.workload_tasks >= 1
     /\ student.previous_workload >= 1) =>
        LET r == Val(result).returned
        IN  /\ r.newRisk <= r.originalRisk
            /\ r.riskReduction >= 0
            /\ EntryRules(r.explanation, "Triggered") = {}

-----------------------------------------------------------------------------
(* The placeholder driver of compute_silent_collapse_risk, under SpecCollapse *)

\* C28: when no factor-specific driver fires the collapse score is at most 25
\* and the level is Low; the drivers returned never contain the placeholder
\* "Pattern under observation", and a level other than Low comes with at
\* least one factor-specific driver.
C28_PlaceholderUnreachable ==
    collapse /= None =>
        LET c == Val(collapse)
        IN  /\ \A i \in 1..Len(c.drivers) :
                  c.drivers[i].driver /= "Pattern under observation"
            /\ c.drivers = <<>> => (c.score <= 25 /\ c.level = "Low")
            /\ c.level /= "Low" => c.drivers /= <<>>

\* A Moderate final level with no driver: only the base contribution of 15.
C28_Witness ==
    /\ collapse /= None
    /\ analytics_get_risk_level(score) = "Moderate"
    /\ Val(collapse).drivers = <<>>
    /\ Val(collapse).score = 15
    /\ Val(collapse).level = "Low"

-----------------------------------------------------------------------------
(* The range of the fused score, under SpecFusion *)

\* C29: the rule score lies in 0..100 and the fused final score in 9..88; with
\* label 2 the final score is at least 48 and the level is never Low; with
\* label 0 the final score is at most 49 and the level is never High, however
\* many rules trigger.
C29_FusedBounds ==
    analytics /= None =>
        LET a == Val(analytics)
        IN  /\ a.ruleRiskScore \in 0..100
            /\ a.finalRiskScore \in 9..88
            /\ a.mlPrediction = 2 =>
                  (a.finalRiskScore >= 48 /\ a.finalRiskLevel /= "Low")
            /\ a.mlPrediction = 0 =>
                  (a.finalRiskScore <= 49 /\ a.finalRiskLevel /= "High")

\* Label 0 on a row whose rules sum to more than 100: the rule score is capped
\* at 100 and the final score is 49, Moderate.
C29_Witness ==
    /\ analytics /= None
    /\ Val(analytics).mlPrediction = 0
    /\ rule_risk_sum(row).score > 100
    /\ Val(analytics).ruleRiskScore = 100
    /\ Val(analytics).finalRiskScore = 49
    /\ Val(analytics).finalRiskLevel = "Moderate"

-----------------------------------------------------------------------------
(* reset_data, under SpecStore.  NumStudents stands for the 50 of
   generate_students(50), and Ids for the ids 1000..1049. *)

\* C30: from any reachable state a reset leaves the ingestion log empty and
\* exactly NumStudents freshly generated students stored, with the ids
\* StudentId .. StudentId + NumStudents - 1; the risk cache has the entry of
\* each of them and of no other id; the statistics returned satisfy
\* highRisk + moderateRisk + lowRisk = totalStudents = NumStudents.
C30_ResetFresh ==
    [][IsReset =>
         LET r == Val(response')
         IN  /\ ingestion_log' = <<>>
             /\ DOMAIN students' = StudentId..(StudentId + NumStudents - 1)
             /\ Cardinality(DOMAIN students') = NumStudents
             /\ \A id \in DOMAIN students' :
                   /\ students'[id].student_id = id
                   /\ students'[id] \in Generated(id)
             /\ DOMAIN risk_cache' = DOMAIN students'
             /\ \A id \in DOMAIN students' : risk_cache'[id] = CacheEntry(students'[id])
             /\ r.studentsLoaded = NumStudents
             /\ r.stats.totalStudents = NumStudents
             /\ r.stats.highRisk + r.stats.moderateRisk + r.stats.lowRisk
                   = r.stats.totalStudents]_vars

\* A reset has been answered: the log is empty and the statistics count both
\* a Low and a Moderate student among the NumStudents generated.
C30_Witness ==
    /\ response /= None
    /\ "studentsLoaded" \in DOMAIN Val(response)
    /\ Val(response).studentsLoaded = NumStudents
    /\ Val(response).stats.lowRisk >= 1
    /\ Val(response).stats.moderateRisk >= 1
    /\ ingestion_log = <<>>

=============================================================================
